---- MODULE Spec2Model ----
(***************************************************************************)
(* Model of the statistical-reporting functions of the errand analysis     *)
(* pipeline (src/analysis.py, src/common.py).                              *)
(*                                                                         *)
(* The functions are pure: a behaviour is one call.  Init draws the        *)
(* function and its arguments (pc = "call"); the function's action         *)
(* computes the outcome into ret (pc = "return").                          *)
(*                                                                         *)
(* Numbers.  float64 values are modelled exactly, as integers scaled by    *)
(* the number of decimals the code rounds to (a value rounded to 4         *)
(* decimals is an integer count of 1/10000, one rounded to 2 decimals a    *)
(* count of 1/100) or as comparisons of cross-multiplied integers.         *)
(* numpy's round is round-half-to-even on the scaled value.                *)
(***************************************************************************)
EXTENDS Integers, Sequences, FiniteSets, TLC

VARIABLES fn, args, pc, ret

vars == <<fn, args, pc, ret>>

----------------------------------------------------------------------------
(* Bounds of the model *)

MaxCats == 5
MaxCount == 4
MaxN == 2
MaxNeg == 1
BigCount == 40000
MaxGroups == 3
MaxSeriesLen == 2

\* build_db.py: order ids are 1..MaxOrderId; rows of the errands and orders tables
MaxOrderId == 2

MaxErrands == 3

MaxOrders == 2

\* analysis.py: rows of the table given to compute_contacts_stats
MaxRows == 3

\* analysis.py: rows of the table and pairs given to analyze_column_dependencies
MaxDepRows == 2

MaxPairs == 2

----------------------------------------------------------------------------
(* Python / pandas primitives *)

\* Optional[int]: None is the empty tuple, an integer n is <<n>>.
None == <<>>

Some(n) == <<n>>

\* Truth value of an Optional[int] in `if x and ...`: None and 0 are false.
Truthy(opt) == opt # None /\ opt[1] # 0

Min(a, b) == IF a <= b THEN a ELSE b

Max(a, b) == IF a >= b THEN a ELSE b

Abs(a) == IF a >= 0 THEN a ELSE 0 - a

RECURSIVE SeqSum(_)
SeqSum(s) == IF s = <<>> THEN 0 ELSE s[1] + SeqSum(Tail(s))

RECURSIVE SeqSumSq(_)
SeqSumSq(s) == IF s = <<>> THEN 0 ELSE s[1] * s[1] + SeqSumSq(Tail(s))

\* numpy round of the non-negative value num/den to an integer: nearest,
\* ties to even.  (den - r is compared with r so that nothing is doubled.)
RoundHalfEven(num, den) ==
    LET q == num \div den
        r == num % den
    IN  IF r > den - r THEN q + 1
        ELSE IF r < den - r THEN q
        ELSE IF q % 2 = 0 THEN q ELSE q + 1

\* (num/den).round(4), in units of 1/10000.
Round4(num, den) == RoundHalfEven(10000 * num, den)

\* DataFrame.head(n) = iloc[:n]: a negative n drops the last |n| rows.
head(df, n) ==
    IF n >= 0 THEN SubSeq(df, 1, Min(n, Len(df)))
    ELSE SubSeq(df, 1, Max(0, Len(df) + n))

\* DataFrame.tail(n) = iloc[-n:] (empty for n = 0): a negative n drops the
\* first |n| rows.
tail(df, n) ==
    IF n = 0 THEN <<>>
    ELSE IF n > 0 THEN SubSeq(df, Max(1, Len(df) - n + 1), Len(df))
    ELSE SubSeq(df, Min(Len(df), 0 - n) + 1, Len(df))

\* The concatenation of a sequence of sequences.
RECURSIVE Concat(_)
Concat(ss) == IF ss = <<>> THEN <<>> ELSE ss[1] \o Concat(Tail(ss))

----------------------------------------------------------------------------
(* analysis.py: categorical analyzer *)

\* category_counts is the Series df[column].value_counts(): a sequence of
\* [category, count] in descending order of count.
values(category_counts) ==
    [i \in 1..Len(category_counts) |-> category_counts[i].count]

\* Ratio column: (values / sum(values)).round(4), in units of 1/10000.
RatioWrongDenominator(category_counts, i) ==
    Round4(category_counts[i].count, Len(category_counts))

ratio(category_counts, i) ==
    Round4(category_counts[i].count, SeqSum(values(category_counts)))

full_table(category_counts) ==
    [i \in 1..Len(category_counts) |->
        [Category |-> category_counts[i].category,
         Count    |-> category_counts[i].count,
         Ratio    |-> ratio(category_counts, i)]]

ellipsis_row == [Category |-> "...", Count |-> "...", Ratio |-> "..."]

\* The condition of the slicing branch (line 82).
slice_applies(category_counts, top_n, bottom_n) ==
    /\ Truthy(top_n)
    /\ Truthy(bottom_n)
    /\ Len(category_counts) > top_n[1] + bottom_n[1] + 1

create_categorical_table(category_counts, top_n, bottom_n) ==
    IF slice_applies(category_counts, top_n, bottom_n)
    THEN head(full_table(category_counts), top_n[1])
            \o <<ellipsis_row>>
            \o tail(full_table(category_counts), bottom_n[1])
    ELSE full_table(category_counts)

\* sum(proportions**2) as the fraction <<numerator, denominator>>; the sum
\* over an empty Series is 0 and divides nothing.
sum_squared_proportions(category_counts) ==
    IF category_counts = <<>> THEN <<0, 1>>
    ELSE <<SeqSumSq(values(category_counts)),
           SeqSum(values(category_counts)) * SeqSum(values(category_counts))>>

\* round(1 - sum(proportions**2), 4), in units of 1/10000.
GiniWithoutComplement(category_counts) ==
    LET s == sum_squared_proportions(category_counts)
    IN  Round4(s[1], s[2])

gini_coef(category_counts) ==
    LET s == sum_squared_proportions(category_counts)
    IN  Round4(s[2] - s[1], s[2])

\* cumulative_ratios[k] <= 0.8, i.e. 5 * (c1 + .. + ck) <= 4 * total.
cumulative_le_80(category_counts, k) ==
    5 * SeqSum(SubSeq(values(category_counts), 1, k))
        <= 4 * SeqSum(values(category_counts))

Top80FlippedComparison(category_counts) ==
    Cardinality({k \in 1..Len(category_counts) :
                    5 * SeqSum(SubSeq(values(category_counts), 1, k))
                        >= 4 * SeqSum(values(category_counts))}) + 1

\* (cumulative_ratios <= 0.8).sum() + 1
top_80_percent_count(category_counts) ==
    Cardinality({k \in 1..Len(category_counts) :
                    cumulative_le_80(category_counts, k)}) + 1

\* round(relative_80_percent, 4), in units of 1/10000.
rel_top_cat(category_counts) ==
    IF Len(category_counts) > 0
    THEN Round4(top_80_percent_count(category_counts), Len(category_counts))
    ELSE 0

calculate_categorical_metrics(category_counts) ==
    [unique      |-> Len(category_counts),
     gini_coef   |-> gini_coef(category_counts),
     abs_top_cat |-> top_80_percent_count(category_counts),
     rel_top_cat |-> rel_top_cat(category_counts)]

----------------------------------------------------------------------------
(* analysis.py: descriptive statistics of one series of count_errands *)

RECURSIVE Insert(_, _)
Insert(x, s) ==
    IF s = <<>> THEN <<x>>
    ELSE IF x <= s[1] THEN <<x>> \o s
    ELSE <<s[1]>> \o Insert(x, Tail(s))

RECURSIVE SortAscending(_)
SortAscending(s) == IF s = <<>> THEN <<>> ELSE Insert(s[1], SortAscending(Tail(s)))

\* 4 * Series.quantile(k/4) with linear interpolation, for a non-empty s.
quantile4(s, k) ==
    LET srt == SortAscending(s)
        pos == k * (Len(s) - 1)
        lo  == pos \div 4 + 1
        fr  == pos % 4
        hi  == IF fr = 0 THEN lo ELSE lo + 1
    IN  4 * srt[lo] + (srt[hi] - srt[lo]) * fr

\* mean is the fraction <<sum, count>>; std_dev is given by the sample
\* variance <<n * sum(x^2) - sum(x)^2, n * (n - 1)>>, whose denominator 0
\* stands for NaN (a single value); quartiles are multiplied by 4.
\* The value pandas returns for a statistic of an empty series.
NaN == <<>>

descriptive_stats(series) ==
    IF series = <<>>
    THEN [series          |-> series,
          count           |-> 0,
          mean            |-> NaN,
          std_dev         |-> NaN,
          min             |-> NaN,
          percentile_25th |-> NaN,
          median          |-> NaN,
          percentile_75th |-> NaN,
          max             |-> NaN]
    ELSE
    [series          |-> series,
     count           |-> Len(series),
     mean            |-> <<SeqSum(series), Len(series)>>,
     std_dev         |-> <<Len(series) * SeqSumSq(series)
                              - SeqSum(series) * SeqSum(series),
                           Len(series) * (Len(series) - 1)>>,
     min             |-> SortAscending(series)[1],
     percentile_25th |-> quantile4(series, 1),
     median          |-> quantile4(series, 2),
     percentile_75th |-> quantile4(series, 3),
     max             |-> SortAscending(series)[Len(series)]]

----------------------------------------------------------------------------
(* common.py: display_errands_stats *)

\* stats is a dict in insertion order: a sequence of [key, value], value
\* a descriptive_stats record.
keys(stats) == {stats[i].key : i \in 1..Len(stats)}

\* all_counts and small_threshold = pd.Series(all_counts).quantile(0.25),
\* multiplied by 4.
all_counts(stats) == [i \in 1..Len(stats) |-> stats[i].value.count]

small_threshold4(stats) == quantile4(all_counts(stats), 1)

\* Square of the z-score of x = xn/xd against the baseline values ys, as
\* the fraction <<numerator, denominator>>:
\*   (x - mean(ys)) / std(ys) if std(ys) > 0 else 0
\* std(ys) is NaN for fewer than two values and NaN > 0 is false.  The
\* arithmetic is exact: float64 rounding residue in the std of identical
\* non-representable values is not modelled.
z_score_sq(xn, xd, ys) ==
    LET K == Len(ys)
        S == SeqSum(ys)
        V == K * SeqSumSq(ys) - S * S
        D == xn * K - S * xd
    IN  IF K >= 2 /\ V > 0
        THEN <<D * D * (K - 1), xd * xd * K * V>>
        ELSE <<0, 1>>

\* abs(z) > 2 and group_count > small_threshold
FlagBranchesSwapped(zsq, group_count, threshold4) ==
    IF zsq[1] > 4 * zsq[2] /\ 4 * group_count > threshold4 THEN "" ELSE "*"

\* abs(z) > 2 alone, without the gate on the group count.
FlagWithoutCountGate(zsq, group_count, threshold4) ==
    IF zsq[1] > 4 * zsq[2] THEN "*" ELSE ""

outlier_flag(zsq, group_count, threshold4) ==
    IF zsq[1] > 4 * zsq[2] /\ 4 * group_count > threshold4 THEN "*" ELSE ""

\* z-score of the group mean relative to the overall series (lines 200-206).
z_score(group_stats, overall_series) ==
    z_score_sq(group_stats.mean[1], group_stats.mean[2], overall_series)

z_score_flag(stats, i, overall_series) ==
    outlier_flag(z_score(stats[i].value, overall_series),
                 stats[i].value.count, small_threshold4(stats))

\* The means of the other groups (lines 209-213), as indices into stats.
other_groups(stats, i) ==
    SelectSeq([j \in 1..Len(stats) |-> j],
              LAMBDA j : stats[j].key # stats[i].key)

RECURSIVE Gcd(_, _)
Gcd(a, b) == IF b = 0 THEN a ELSE Gcd(b, a % b)

RECURSIVE LcmOfCounts(_)
LcmOfCounts(cs) ==
    IF cs = <<>> THEN 1
    ELSE LET l == LcmOfCounts(Tail(cs)) IN (cs[1] * l) \div Gcd(cs[1], l)

\* The group means on the common denominator of all groups: the mean of
\* group j is ScaledMean(stats, j) / LcmOfCounts(all_counts(stats)).
ScaledMean(stats, j) ==
    stats[j].value.mean[1]
        * (LcmOfCounts(all_counts(stats)) \div stats[j].value.mean[2])

other_means(stats, i) ==
    LET og == other_groups(stats, i)
    IN  [k \in 1..Len(og) |-> ScaledMean(stats, og[k])]

\* z-score of the group mean relative to the other groups' means
\* (lines 214-217).
mean_z_score(stats, i) ==
    z_score_sq(ScaledMean(stats, i), 1, other_means(stats, i))

mean_outlier_flag(stats, i) ==
    outlier_flag(mean_z_score(stats, i),
                 stats[i].value.count, small_threshold4(stats))

RECURSIVE SetToSortedSeq(_)
SetToSortedSeq(S) ==
    IF S = {} THEN <<>>
    ELSE LET m == CHOOSE x \in S : \A y \in S : x <= y
         IN  <<m>> \o SetToSortedSeq(S \ {m})

\* group_series.value_counts().sort_index(): [value, count] by value.
errand_counts(group_series) ==
    LET vs == SetToSortedSeq({group_series[i] : i \in 1..Len(group_series)})
    IN  [k \in 1..Len(vs) |->
            [value |-> vs[k],
             count |-> Cardinality({i \in 1..Len(group_series) :
                                       group_series[i] = vs[k]})]]

\* errand_counts.get(i, 0): lookup by label.
get(ec, label, default) ==
    IF \E k \in 1..Len(ec) : ec[k].value = label
    THEN ec[CHOOSE k \in 1..Len(ec) : ec[k].value = label].count
    ELSE default

\* errand_counts[5:].sum(): a slice of a Series with an integer index
\* selects by position, here the entries after the first five.
slice_from_5_sum(ec) ==
    SeqSum([k \in 1..Len(SubSeq(ec, 6, Len(ec))) |->
               SubSeq(ec, 6, Len(ec))[k].count])

\* round(x, 2), in units of 1/100, as printed by "%0.02f".
Round2(num, den) == RoundHalfEven(100 * num, den)

percentage_vector(group_series, group_count) ==
    LET ec == errand_counts(group_series)
    IN  [b \in 1..6 |->
            IF b <= 5 THEN Round2(get(ec, b - 1, 0), group_count)
            ELSE Round2(slice_from_5_sum(ec), group_count)]

\* One row of the stratified table.  The columns Count .. Max carry the
\* stats record's values; their number formatting is not modelled.
stratified_row(stats, i, overall_series) ==
    [Group            |-> stats[i].key,
     Count            |-> stats[i].value.count,
     Mean             |-> stats[i].value.mean,
     StD              |-> stats[i].value.std_dev,
     Min              |-> stats[i].value.min,
     P25              |-> stats[i].value.percentile_25th,
     P50              |-> stats[i].value.median,
     P75              |-> stats[i].value.percentile_75th,
     Max              |-> stats[i].value.max,
     GlobOutlier      |-> z_score_flag(stats, i, overall_series),
     InGrpOutlier     |-> mean_outlier_flag(stats, i),
     PercentageVector |-> percentage_vector(stats[i].value.series,
                                            stats[i].value.count)]

\* The two-column table of the "overall" record, without the raw series.
overall_rows(overall_stats) ==
    <<[Metric |-> "Count",           Value |-> overall_stats.count],
      [Metric |-> "Mean",            Value |-> overall_stats.mean],
      [Metric |-> "Std_dev",         Value |-> overall_stats.std_dev],
      [Metric |-> "Min",             Value |-> overall_stats.min],
      [Metric |-> "25th_percentile", Value |-> overall_stats.percentile_25th],
      [Metric |-> "Median",          Value |-> overall_stats.median],
      [Metric |-> "75th_percentile", Value |-> overall_stats.percentile_75th],
      [Metric |-> "Max",             Value |-> overall_stats.max]>>

\* The outcome of display_errands_stats: the rendered table, or the
\* exception raised.  overall_series is an Optional series.
\*   - overall_series.mean() on None raises AttributeError (line 184);
\*   - sum(other_means) / len(other_means) is an int division and raises
\*     ZeroDivisionError when a group has no other group (line 214).
display_errands_stats(stats, overall_series) ==
    IF "overall" \in keys(stats)
    THEN [raised |-> "none", table |-> "overall",
          rows |-> overall_rows(
              stats[CHOOSE i \in 1..Len(stats) : stats[i].key = "overall"].value)]
    ELSE IF overall_series = None
    THEN [raised |-> "AttributeError"]
    ELSE IF \E i \in 1..Len(stats) : other_groups(stats, i) = <<>>
    THEN [raised |-> "ZeroDivisionError"]
    ELSE [raised |-> "none", table |-> "stratified",
          rows |-> [i \in 1..Len(stats) |->
                       stratified_row(stats, i, overall_series[1])]]

----------------------------------------------------------------------------
(* common.py: get_time_slot *)

\* A timestamp is modelled by its time of day; only dt.hour is read.
get_time_slot(dt) ==
    IF 0 <= dt.hour /\ dt.hour <= 6 THEN "A"
    ELSE IF 6 < dt.hour /\ dt.hour <= 12 THEN "B"
    ELSE IF 12 < dt.hour /\ dt.hour <= 18 THEN "C"
    ELSE "D"

----------------------------------------------------------------------------
(* pandas: unique, value_counts *)

\* Series.unique(): the distinct values in order of first appearance.
RECURSIVE unique(_)
unique(col) ==
    IF col = <<>> THEN <<>>
    ELSE LET u == unique(SubSeq(col, 1, Len(col) - 1))
             x == col[Len(col)]
         IN  IF \E i \in 1..Len(u) : u[i] = x THEN u ELSE Append(u, x)

Occurrences(col, v) == Cardinality({i \in 1..Len(col) : col[i] = v})

RECURSIVE InsertByCount(_, _)
InsertByCount(e, s) ==
    IF s = <<>> THEN <<e>>
    ELSE IF e.count > s[1].count THEN <<e>> \o s
    ELSE <<s[1]>> \o InsertByCount(e, Tail(s))

\* Descending by count; equal counts stay in order of first appearance.
RECURSIVE SortByCount(_)
SortByCount(s) ==
    IF s = <<>> THEN <<>>
    ELSE InsertByCount(s[Len(s)], SortByCount(SubSeq(s, 1, Len(s) - 1)))

\* Series.value_counts() of a column without missing values.
value_counts(col) ==
    LET u == unique(col)
    IN  SortByCount([i \in 1..Len(u) |->
            [category |-> u[i], count |-> Occurrences(col, u[i])]])

----------------------------------------------------------------------------
(* build_db.py: update_orders_with_errand_counts *)

\* errands_df["order_id"].value_counts().reset_index() with its columns renamed.
order_errand_counts(errands_df) ==
    LET vc == value_counts([i \in 1..Len(errands_df) |-> errands_df[i].order_id])
    IN  [i \in 1..Len(vc) |->
            [order_id |-> vc[i].category, count_errands |-> vc[i].count]]

\* An inner join: an orders row without a counted errand is dropped.
MergeInner(orders_df, counts) ==
    Concat([i \in 1..Len(orders_df) |->
        LET matches == SelectSeq(counts,
                LAMBDA c : c.order_id = orders_df[i].order_id)
        IN  [k \in 1..Len(matches) |->
                [order_id |-> orders_df[i].order_id,
                 count_errands |-> Some(matches[k].count_errands)]]])

\* orders_df.merge(counts, on="order_id", how="left"): one row per match, in
\* the order of orders_df; a row without a match keeps a missing count.
merge_left(orders_df, counts) ==
    Concat([i \in 1..Len(orders_df) |->
        LET matches == SelectSeq(counts,
                LAMBDA c : c.order_id = orders_df[i].order_id)
        IN  IF matches = <<>>
            THEN <<[order_id |-> orders_df[i].order_id, count_errands |-> None]>>
            ELSE [k \in 1..Len(matches) |->
                    [order_id |-> orders_df[i].order_id,
                     count_errands |-> Some(matches[k].count_errands)]]])

fillna_0_int(v) == IF v = None THEN 0 ELSE v[1]

update_orders_with_errand_counts(errands_df, orders_df) ==
    LET merged == merge_left(orders_df, order_errand_counts(errands_df))
    IN  [i \in 1..Len(merged) |->
            [order_id |-> merged[i].order_id,
             count_errands |-> fillna_0_int(merged[i].count_errands)]]

----------------------------------------------------------------------------
(* build_ml_data.py: transform_errands *)

\* Step 1: errands_df[~errands_df["is_test_errand"]].
non_test_errands(errands_df) ==
    SelectSeq(errands_df, LAMBDA e : ~e.is_test_errand)

\* Steps 2-4: the left merge on order_id (orders_df has order_id as its
\* primary key) and order_diff, in hours; an errand whose order is not in
\* orders_df has a missing order_diff.
merged_row(e, orders_df) ==
    LET matches == SelectSeq(orders_df, LAMBDA o : o.order_id = e.order_id)
    IN  [errand_id |-> e.errand_id,
         order_id |-> e.order_id,
         order_diff |-> IF matches = <<>> THEN None
                        ELSE Some(e.created - matches[1].order_created_at)]

\* Ordering of sort_values(by=["order_id", "order_diff"]): missing values last.
sort_key_le(a, b) ==
    \/ a.order_id < b.order_id
    \/ /\ a.order_id = b.order_id
       /\ \/ b.order_diff = None
          \/ a.order_diff # None /\ a.order_diff[1] <= b.order_diff[1]

RECURSIVE insert_by_sort_key(_, _)
insert_by_sort_key(e, s) ==
    IF s = <<>> THEN <<e>>
    ELSE IF ~sort_key_le(s[1], e) THEN <<e>> \o s
    ELSE <<s[1]>> \o insert_by_sort_key(e, Tail(s))

\* Step 5; rows with equal keys stay in their order.
RECURSIVE sort_values(_)
sort_values(rows) ==
    IF rows = <<>> THEN <<>>
    ELSE insert_by_sort_key(rows[Len(rows)],
                            sort_values(SubSeq(rows, 1, Len(rows) - 1)))

\* The rows left in the order of the merge.
SortOmitted(rows) == rows

\* Step 6: groupby("order_id").cumcount() + 1 of the row at position p.
errand_order(rows, p) ==
    Cardinality({q \in 1..p : rows[q].order_id = rows[p].order_id})

\* Steps 1-4: the non-test errands merged with their orders.
merged_df(errands_df, orders_df) ==
    LET kept == non_test_errands(errands_df)
    IN  [i \in 1..Len(kept) |-> merged_row(kept[i], orders_df)]

\* Step 6: the errand_order column added to the rows.
with_errand_order(transformed_df) ==
    [p \in 1..Len(transformed_df) |->
        [errand_id |-> transformed_df[p].errand_id,
         order_id |-> transformed_df[p].order_id,
         order_diff |-> transformed_df[p].order_diff,
         errand_order |-> errand_order(transformed_df, p)]]

TransformUnsorted(errands_df, orders_df) ==
    with_errand_order(SortOmitted(merged_df(errands_df, orders_df)))

transform_errands(errands_df, orders_df) ==
    with_errand_order(sort_values(merged_df(errands_df, orders_df)))

----------------------------------------------------------------------------
(* analysis.py: compute_contacts_stats *)

\* Truth value of an Optional[str] and of an Optional[set] in `if x and y`:
\* None, the empty string and the empty set are false.
TruthyStr(opt) == opt # None /\ opt[1] # ""

TruthySet(opt) == opt # None /\ opt[1] # {}

\* A table is the sequence of its rows; df[name] is one column.
column(df, name) == [i \in 1..Len(df) |-> df[i][name]]

\* Lines 329-330: the optional isin filter.
filter_rows(df, filter_column, filter_values) ==
    IF TruthyStr(filter_column) /\ TruthySet(filter_values)
    THEN SelectSeq(df, LAMBDA row : row[filter_column[1]] \in filter_values[1])
    ELSE df

\* The values the categorical columns take in the model, in ascending order.
ColumnValues == <<"a", "b", "overall", "x", "y">>

\* groupby(by, sort=False): the group keys in order of first appearance.
GroupKeysFirstSeen(df, by) == unique(column(df, by))

\* df.groupby(by) iterates the groups in ascending order of their key.
group_keys(df, by) ==
    SelectSeq(ColumnValues, LAMBDA v : \E i \in 1..Len(df) : df[i][by] = v)

\* A group that is not restricted to the rows of its key.
GroupOfAllRows(df, by, key) == df

group_df(df, by, key) == SelectSeq(df, LAMBDA row : row[by] = key)

\* The returned dict, as the sequence of its items in insertion order.
compute_contacts_stats(df, stratify_by, filter_column, filter_values) ==
    LET filtered == filter_rows(df, filter_column, filter_values)
    IN  IF ~TruthyStr(stratify_by)
        THEN <<[key |-> "overall",
                value |-> descriptive_stats(column(filtered, "count_errands"))]>>
        ELSE LET ks == group_keys(filtered, stratify_by[1])
             IN  [g \in 1..Len(ks) |->
                    [key |-> ks[g],
                     value |-> descriptive_stats(column(
                         group_df(filtered, stratify_by[1], ks[g]),
                         "count_errands"))]]

----------------------------------------------------------------------------
(* analysis.py: analyze_column_dependencies *)

\* A DataFrame here is [columns, rows].  What the function emits through
\* render_metrics_and_table, plot_count_series and render_markdown is
\* returned as the sequence of emitted items; each item records the
\* position in column_dependencies of the pair that emitted it.

\* A pair is processed as soon as one of its columns is present.
PairPresentEither(df, main_col, dep_col) ==
    main_col \in df.columns \/ dep_col \in df.columns

\* Line 173.
pair_present(df, main_col, dep_col) ==
    main_col \in df.columns /\ dep_col \in df.columns

\* The distinct main values in ascending order.
MainValuesSorted(df, main_col) ==
    SelectSeq(ColumnValues,
              LAMBDA v : \E i \in 1..Len(df.rows) : df.rows[i][main_col] = v)

\* df[main_col].unique()
main_values(df, main_col) == unique(column(df.rows, main_col))

\* render_metrics_and_table(title, metrics, table)
metrics_and_table(p, title, category_counts) ==
    [dependency |-> p,
     kind |-> "table",
     title |-> title,
     metrics |-> calculate_categorical_metrics(category_counts),
     table |-> create_categorical_table(category_counts, Some(5), Some(5))]

\* plotting.plot_count_series(data, title, xlabel)
count_series_plot(p, title, category_counts) ==
    [dependency |-> p, kind |-> "plot", title |-> title, data |-> category_counts]

\* Lines 176-195: the combined analysis of the tuples (main, dependent).
combined_analysis(p, df, main_col, dep_col) ==
    LET combined_column ==
            [i \in 1..Len(df.rows) |-> <<df.rows[i][main_col], df.rows[i][dep_col]>>]
        combined_category_counts == value_counts(combined_column)
    IN  <<metrics_and_table(p, <<"Combined Analysis", main_col, dep_col>>,
                            combined_category_counts),
          count_series_plot(p, <<main_col, dep_col, "Distribution">>,
                            combined_category_counts)>>

\* Lines 198-217: the header and one table and plot per main value.
stratified_analysis(p, df, main_col, dep_col) ==
    LET mains == main_values(df, main_col)
    IN  <<[dependency |-> p, kind |-> "markdown",
           title |-> <<"Stratified Analysis", dep_col, "by", main_col>>]>>
        \o Concat([k \in 1..Len(mains) |->
              LET subset == SelectSeq(df.rows,
                                LAMBDA row : row[main_col] = mains[k])
                  category_counts == value_counts(column(subset, dep_col))
              IN  <<metrics_and_table(p, <<main_col, "=", mains[k]>>,
                                      category_counts),
                    count_series_plot(p,
                        <<dep_col, "Distribution for", main_col, "=", mains[k]>>,
                        category_counts)>>])

\* Selecting a column the table does not have raises KeyError.
analyze_column_dependencies(df, column_dependencies) ==
    LET processed == {p \in 1..Len(column_dependencies) :
            pair_present(df, column_dependencies[p][1], column_dependencies[p][2])}
    IN  IF \E p \in processed :
              ~({column_dependencies[p][1], column_dependencies[p][2]}
                    \subseteq df.columns)
        THEN [raised |-> "KeyError"]
        ELSE [raised |-> "none",
              emitted |-> Concat([p \in 1..Len(column_dependencies) |->
                  IF p \in processed
                  THEN combined_analysis(p, df, column_dependencies[p][1],
                                         column_dependencies[p][2])
                       \o stratified_analysis(p, df, column_dependencies[p][1],
                                              column_dependencies[p][2])
                  ELSE <<>>])]

----------------------------------------------------------------------------
(* analysis.py: generate_df_analysis *)

\* `x or []` for an Optional list.
or_empty_list(opt) == IF opt = None THEN <<>> ELSE opt[1]

\* The columns of the model's tables in their order in the table; all of
\* them are categorical (object dtype).
ColumnOrder == <<"brand", "device", "partner">>

\* df.drop(columns=exclude_columns, errors="ignore")
drop_columns(df, exclude_columns) ==
    LET kept == df.columns \ {exclude_columns[i] : i \in 1..Len(exclude_columns)}
    IN  [columns |-> kept,
         rows |-> [i \in 1..Len(df.rows) |-> [c \in kept |-> df.rows[i][c]]]]

\* Lines 234-263: the header, with one summary row per column.  Items that
\* no dependency pair emits carry the position 0.
generate_df_analysis_header(df, exclude_columns, dependencies) ==
    LET cols == SelectSeq(ColumnOrder, LAMBDA c : c \in df.columns)
    IN  [dependency |-> 0, kind |-> "markdown",
         title |-> <<"Dataset Summary">>,
         total_rows |-> Len(df.rows),
         total_columns |-> Len(cols),
         column_report |-> [k \in 1..Len(cols) |->
             [ColumnName |-> cols[k],
              Excluded |-> \E i \in 1..Len(exclude_columns) :
                               exclude_columns[i] = cols[k],
              Dependent |-> \E p \in 1..Len(dependencies) :
                                dependencies[p][2] = cols[k]]]]

\* display_numerical_summary(df)
display_numerical_summary(df) ==
    [dependency |-> 0, kind |-> "markdown", title |-> <<"Numerical Summary">>]

\* Lines 143-158: the table and the plot of one column.
analyze_categorical_column(df, col) ==
    LET category_counts == value_counts(column(df.rows, col))
    IN  <<metrics_and_table(0, <<"Column", col>>, category_counts),
          count_series_plot(0, <<col, "Distribution">>, category_counts)>>

\* Lines 282-285: the categorical columns analysed on their own.
individually_analyzed(df, dependencies) ==
    SelectSeq(ColumnOrder,
              LAMBDA col : /\ col \in df.columns
                           /\ col \notin {dependencies[p][2] :
                                             p \in 1..Len(dependencies)})

generate_column_analysis(df, dependencies) ==
    LET cols == individually_analyzed(df, dependencies)
        deps == analyze_column_dependencies(df, dependencies)
    IN  IF deps.raised # "none" THEN deps
        ELSE [raised |-> "none",
              emitted |-> <<display_numerical_summary(df)>>
                  \o Concat([k \in 1..Len(cols) |->
                         analyze_categorical_column(df, cols[k])])
                  \o deps.emitted]

generate_df_analysis(df, exclude_columns, dependencies) ==
    LET excluded == or_empty_list(exclude_columns)
        pairs == or_empty_list(dependencies)
        analysis == generate_column_analysis(drop_columns(df, excluded), pairs)
    IN  IF analysis.raised # "none" THEN analysis
        ELSE [raised |-> "none",
              emitted |-> <<generate_df_analysis_header(df, excluded, pairs)>>
                              \o analysis.emitted]

----------------------------------------------------------------------------
(* Inputs *)

Labels == <<"A", "B", "C", "D", "E", "F", "G", "H", "I", "J", "K", "L">>

\* value_counts() of a column: positive counts, largest first.
WithLabels(counts) ==
    [i \in 1..Len(counts) |-> [category |-> Labels[i], count |-> counts[i]]]

SortedCountSeqs ==
    {s \in UNION {[1..n -> 1..MaxCount] : n \in 0..MaxCats} :
        \A i \in 1..Len(s) - 1 : s[i] >= s[i + 1]}

\* The worked example of the documentation, and a column dominated by one
\* category.
ExampleCountSeqs == {<<50, 30, 20>>, <<BigCount>>, <<BigCount, 1>>}

CategoryCounts ==
    {WithLabels(s) : s \in SortedCountSeqs \cup ExampleCountSeqs}

OptionalN == {None} \cup {Some(n) : n \in (0 - MaxNeg)..MaxN}

CreateTableCalls ==
    [category_counts : CategoryCounts, top_n : OptionalN, bottom_n : OptionalN]

MetricsCalls == [category_counts : CategoryCounts]

\* count_errands values of a group, in non-decreasing order (every
\* computation of display_errands_stats on a series is order-insensitive).
ErrandValues == {0, 5}

GeneralSeries ==
    {s \in UNION {[1..n -> ErrandValues] : n \in 1..MaxSeriesLen} :
        \A i \in 1..Len(s) - 1 : s[i] <= s[i + 1]}

\* Series with group means 10 and 100.
MeanSeries ==
    {<<10>>, <<10, 10>>, <<5, 15>>, <<100>>, <<100, 100>>, <<90, 110>>}

\* A dict of groups keyed by Labels, as compute_contacts_stats builds it
\* with stratify_by.
StatsOf(seriesSeq) ==
    [i \in 1..Len(seriesSeq) |->
        [key |-> Labels[i], value |-> descriptive_stats(seriesSeq[i])]]


GeneralGroups == UNION {[1..n -> GeneralSeries] : n \in 0..MaxGroups}

MeanGroups == [1..4 -> MeanSeries]

\* The documented percentage-vector example beside a group with six
\* distinct values; one small group far from nine others; nine singleton
\* groups and a pair.
ExampleGroups ==
    {<<<<0, 0, 1, 2, 5, 7>>, <<0, 1, 2, 3, 4, 5>>>>,
     <<<<0, 1, 2, 3, 5, 6, 7>>, <<6>>>>,
     <<<<0>>, <<0>>, <<0>>, <<0>>, <<0>>, <<0>>, <<0>>, <<0>>, <<0>>, <<5, 5>>>>}

\* Stratified calls pass the whole column as overall_series; the default
\* overall_series=None is kept for the small maps.
DisplayCalls ==
    {[stats |-> StatsOf(g), overall_series |-> Some(Concat(g))] :
        g \in GeneralGroups \cup MeanGroups \cup ExampleGroups}
    \cup {[stats |-> StatsOf(g), overall_series |-> None] :
            g \in {h \in GeneralGroups : Len(h) <= 1}}
    \cup {[stats |-> <<[key |-> "overall", value |-> descriptive_stats(s)]>>,
           overall_series |-> None] : s \in GeneralSeries}

\* Every time of day at minute granularity.
TimeSlotCalls == [hour : 0..23, minute : 0..59]

OrderIds == 1..MaxOrderId

ErrandsTables == UNION {[1..n -> [order_id : OrderIds]] : n \in 0..MaxErrands}

OrdersTables == UNION {[1..n -> [order_id : OrderIds]] : n \in 0..MaxOrders}

UpdateOrdersCalls == [errands_df : ErrandsTables, orders_df : OrdersTables]

\* Creation times, in hours.
Times == {0, 1}

\* Two orders; order_id is the primary key of orders_df.
MlOrders ==
    <<[order_id |-> 1, order_created_at |-> 0],
      [order_id |-> 2, order_created_at |-> 1]>>

MlOrderIds == {MlOrders[i].order_id : i \in 1..Len(MlOrders)}

\* Errands with errand_id equal to the row number.
MlErrandsTables ==
    UNION {{[i \in 1..n |-> [errand_id |-> i,
                            order_id |-> f[i].order_id,
                            created |-> f[i].created,
                            is_test_errand |-> f[i].is_test_errand]] :
              f \in [1..n -> [order_id : MlOrderIds, created : Times,
                              is_test_errand : BOOLEAN]]} :
           n \in 0..MaxErrands}

\* orders_df holds both orders, or lacks the second one.
MlOrdersTables == {MlOrders, SubSeq(MlOrders, 1, 1)}

TransformErrandsCalls == [errands_df : MlErrandsTables, orders_df : MlOrdersTables]

GroupValues == {"a", "b", "overall"}

FlagValues == {"x", "y"}

\* Tables with the columns count_errands, group and flag; count_errands is
\* the row number less one, so that every row is told apart by its count.
ContactsTables ==
    UNION {{[i \in 1..n |-> [count_errands |-> i - 1,
                            group |-> f[i].group,
                            flag |-> f[i].flag]] :
              f \in [1..n -> [group : GroupValues, flag : FlagValues]]} :
           n \in 0..MaxRows}

ContactsStatsCalls ==
    [df : ContactsTables,
     stratify_by : {None, Some("group")},
     filter_column : {None, Some("flag")},
     filter_values : {None} \cup {Some(S) : S \in SUBSET FlagValues}]

\* display_errands_stats given the output of compute_contacts_stats on a
\* table, with the table's count_errands column as overall_series.
ComputedDisplayCalls ==
    {[stats |-> compute_contacts_stats(df, by, None, None),
      overall_series |-> Some(column(df, "count_errands")),
      df |-> df,
      stratify_by |-> by] :
        df \in ContactsTables, by \in {None, Some("group")}}

\* Tables with the categorical columns brand and device, and no column
\* partner; at least one row.
DepTables ==
    [columns : {{"brand", "device"}},
     rows : UNION {[1..n -> [brand : {"a", "b"}, device : {"x", "y"}]] :
                      n \in 1..MaxDepRows}]

\* Pairs with both columns present, with the dependent column absent and
\* with the main column absent.
DependencyPairs ==
    {<<"brand", "device">>, <<"device", "brand">>,
     <<"brand", "partner">>, <<"partner", "device">>}

DependenciesCalls ==
    [df : DepTables,
     column_dependencies : UNION {[1..n -> DependencyPairs] : n \in 0..MaxPairs}]

\* No exclusion, or one of the two columns excluded.
ExcludeLists == {None, Some(<<>>), Some(<<"brand">>), Some(<<"device">>)}

DfAnalysisCalls ==
    [df : DepTables,
     exclude_columns : ExcludeLists,
     dependencies : {None} \cup
         {Some(d) : d \in UNION {[1..n -> DependencyPairs] : n \in 0..MaxPairs}}]

----------------------------------------------------------------------------
(* The state machine *)

NoRet == [raised |-> "pending"]

Returned(v) == [raised |-> "none", value |-> v]

Init ==
    /\ pc = "call"
    /\ ret = NoRet
    /\ \/ fn = "create_categorical_table" /\ args \in CreateTableCalls
       \/ fn = "calculate_categorical_metrics" /\ args \in MetricsCalls
       \/ fn = "display_errands_stats"
          /\ args \in DisplayCalls \cup ComputedDisplayCalls
       \/ fn = "get_time_slot" /\ args \in TimeSlotCalls
       \/ fn = "update_orders_with_errand_counts" /\ args \in UpdateOrdersCalls
       \/ fn = "transform_errands" /\ args \in TransformErrandsCalls
       \/ fn = "compute_contacts_stats" /\ args \in ContactsStatsCalls
       \/ fn = "analyze_column_dependencies" /\ args \in DependenciesCalls
       \/ fn = "generate_df_analysis" /\ args \in DfAnalysisCalls

CreateCategoricalTable ==
    /\ pc = "call"
    /\ fn = "create_categorical_table"
    /\ ret' = Returned(create_categorical_table(
                  args.category_counts, args.top_n, args.bottom_n))
    /\ pc' = "return"
    /\ UNCHANGED <<fn, args>>

CalculateCategoricalMetrics ==
    /\ pc = "call"
    /\ fn = "calculate_categorical_metrics"
    /\ ret' = Returned(calculate_categorical_metrics(args.category_counts))
    /\ pc' = "return"
    /\ UNCHANGED <<fn, args>>

DisplayErrandsStats ==
    /\ pc = "call"
    /\ fn = "display_errands_stats"
    /\ ret' = display_errands_stats(args.stats, args.overall_series)
    /\ pc' = "return"
    /\ UNCHANGED <<fn, args>>

GetTimeSlot ==
    /\ pc = "call"
    /\ fn = "get_time_slot"
    /\ ret' = Returned(get_time_slot(args))
    /\ pc' = "return"
    /\ UNCHANGED <<fn, args>>

UpdateOrdersWithErrandCounts ==
    /\ pc = "call"
    /\ fn = "update_orders_with_errand_counts"
    /\ ret' = Returned(update_orders_with_errand_counts(
                  args.errands_df, args.orders_df))
    /\ pc' = "return"
    /\ UNCHANGED <<fn, args>>

TransformErrands ==
    /\ pc = "call"
    /\ fn = "transform_errands"
    /\ ret' = Returned(transform_errands(args.errands_df, args.orders_df))
    /\ pc' = "return"
    /\ UNCHANGED <<fn, args>>

ComputeContactsStats ==
    /\ pc = "call"
    /\ fn = "compute_contacts_stats"
    /\ ret' = Returned(compute_contacts_stats(
                  args.df, args.stratify_by, args.filter_column,
                  args.filter_values))
    /\ pc' = "return"
    /\ UNCHANGED <<fn, args>>

AnalyzeColumnDependencies ==
    /\ pc = "call"
    /\ fn = "analyze_column_dependencies"
    /\ ret' = analyze_column_dependencies(args.df, args.column_dependencies)
    /\ pc' = "return"
    /\ UNCHANGED <<fn, args>>

GenerateDfAnalysis ==
    /\ pc = "call"
    /\ fn = "generate_df_analysis"
    /\ ret' = generate_df_analysis(args.df, args.exclude_columns, args.dependencies)
    /\ pc' = "return"
    /\ UNCHANGED <<fn, args>>

Next ==
    \/ CreateCategoricalTable
    \/ CalculateCategoricalMetrics
    \/ DisplayErrandsStats
    \/ GetTimeSlot
    \/ UpdateOrdersWithErrandCounts
    \/ TransformErrands
    \/ ComputeContactsStats
    \/ AnalyzeColumnDependencies
    \/ GenerateDfAnalysis

Spec == Init /\ [][Next]_vars

----------------------------------------------------------------------------
(* Properties *)

Called(f) == pc = "return" /\ fn = f

Provided(opt) == opt # None

IsSeparator(row) == row.Category = "..."

\* C1: with non-negative integers top_n and bottom_n (0 included) the
\* returned table has top_n + bottom_n + 1 rows when the frequency table has
\* more than top_n + bottom_n + 1 rows, and all R rows otherwise.
C1_RowCount ==
    (/\ Called("create_categorical_table")
     /\ Provided(args.top_n) /\ Provided(args.bottom_n)
     /\ args.top_n[1] >= 0 /\ args.bottom_n[1] >= 0)
    => /\ ret.raised = "none"
       /\ Len(ret.value) =
            IF Len(args.category_counts)
                  > args.top_n[1] + args.bottom_n[1] + 1
            THEN args.top_n[1] + args.bottom_n[1] + 1
            ELSE Len(args.category_counts)

\* The least k such that the k most frequent categories hold at least 80%
\* of the observations.
MinTopCategories(category_counts) ==
    LET vs == values(category_counts)
        reaches(k) == 5 * SeqSum(SubSeq(vs, 1, k)) >= 4 * SeqSum(vs)
    IN  CHOOSE k \in 1..Len(vs) :
            reaches(k) /\ \A j \in 1..(k - 1) : ~reaches(j)

\* C2: abs_top_cat is the minimum number of top categories whose cumulative
\* share reaches 80% of the observations; for {A:50, B:30, C:20} it is 2 and
\* rel_top_cat is 0.6667.
C2_MinimalTop80 ==
    (Called("calculate_categorical_metrics") /\ args.category_counts # <<>>)
    => /\ ret.value.abs_top_cat = MinTopCategories(args.category_counts)
       /\ values(args.category_counts) = <<50, 30, 20>>
            => ret.value.abs_top_cat = 2 /\ ret.value.rel_top_cat = 6667

\* C3 as stated: for every count mapping, the empty one included,
\* 1 <= abs_top_cat <= unique.
C3_AbsTopCatInRange ==
    Called("calculate_categorical_metrics")
    => /\ 1 <= ret.value.abs_top_cat
       /\ ret.value.abs_top_cat <= ret.value.unique

\* C3 (amended): for every non-empty count mapping,
\* 1 <= abs_top_cat <= unique.
C3_AbsTopCatInRangeNonEmpty ==
    (Called("calculate_categorical_metrics") /\ args.category_counts # <<>>)
    => /\ 1 <= ret.value.abs_top_cat
       /\ ret.value.abs_top_cat <= ret.value.unique

C3_Witness ==
    /\ Called("calculate_categorical_metrics")
    /\ Len(args.category_counts) >= 3
    /\ ret.value.abs_top_cat > 1
    /\ ret.value.abs_top_cat < ret.value.unique

\* The percentage vector of the claim: the share of the values equal to
\* 0, 1, 2, 3, 4 and of the values that are 5 or more.
PercentageVectorByValue(group_series) ==
    [b \in 1..6 |->
        Round2(Cardinality({i \in 1..Len(group_series) :
                               IF b <= 5 THEN group_series[i] = b - 1
                               ELSE group_series[i] >= 5}),
               Len(group_series))]

\* C4: the rendered percentage vector of every group has 6 entries, entry i
\* (0..4) the share of raw values equal to i and the last the share of raw
\* values >= 5, rounded to 2 decimals; [0,0,1,2,5,7] gives
\* [0.33 0.17 0.17 0.00 0.00 0.33].
C4_PercentageVector ==
    (Called("display_errands_stats") /\ ret.raised = "none"
        /\ ret.table = "stratified")
    => \A i \in 1..Len(ret.rows) :
          /\ Len(ret.rows[i].PercentageVector) = 6
          /\ ret.rows[i].PercentageVector
                = PercentageVectorByValue(args.stats[i].value.series)
          /\ args.stats[i].value.series = <<0, 0, 1, 2, 5, 7>>
                => ret.rows[i].PercentageVector = <<33, 17, 17, 0, 0, 33>>

HasMean(group_stats, m) == group_stats.mean[1] = m * group_stats.mean[2]

\* Four groups of equal counts, three of mean 10 and one of mean 100, with
\* the union of their raw values as overall_series.
TenTenTenHundred ==
    /\ fn = "display_errands_stats"
    /\ Len(args.stats) = 4
    /\ "overall" \notin keys(args.stats)
    /\ \A i \in 1..4 : args.stats[i].value.count = args.stats[1].value.count
    /\ Cardinality({i \in 1..4 : HasMean(args.stats[i].value, 100)}) = 1
    /\ Cardinality({i \in 1..4 : HasMean(args.stats[i].value, 10)}) = 3
    /\ args.overall_series
          = Some(Concat([i \in 1..4 |-> args.stats[i].value.series]))

\* C5 as stated: for groups with means [10,10,10,100] and equal counts the
\* group with mean 100 is marked '*' in both outlier columns and the other
\* three groups in neither.
C5_HundredFlagged ==
    (pc = "return" /\ TenTenTenHundred)
    => /\ ret.raised = "none"
       /\ \A i \in 1..4 :
            IF HasMean(args.stats[i].value, 100)
            THEN ret.rows[i].GlobOutlier = "*"
                    /\ ret.rows[i].InGrpOutlier = "*"
            ELSE ret.rows[i].GlobOutlier = ""
                    /\ ret.rows[i].InGrpOutlier = ""

\* C5 (amended): for groups with means [10,10,10,100] and equal counts no
\* group is marked in either outlier column (no count exceeds the 25th
\* percentile of equal counts).
C5_NoGroupFlagged ==
    (pc = "return" /\ TenTenTenHundred)
    => /\ ret.raised = "none"
       /\ \A i \in 1..4 :
            ret.rows[i].GlobOutlier = "" /\ ret.rows[i].InGrpOutlier = ""

C5_Witness ==
    /\ pc = "return"
    /\ TenTenTenHundred
    /\ ret.raised = "none"
    /\ HasMean(args.stats[4].value, 100)
    /\ args.stats[4].value.count = 2

\* The baseline of the global signal has a zero or undefined standard
\* deviation: fewer than two values, or a constant overall series.
ZeroOverallStd(overall_series) ==
    \/ Len(overall_series) < 2
    \/ \A j \in 1..Len(overall_series) : overall_series[j] = overall_series[1]

\* The same for the inter-group signal: no, one, or identical other means.
ZeroOtherStd(stats, i) ==
    LET om == other_means(stats, i)
    IN  Len(om) < 2 \/ \A j \in 1..Len(om) : om[j] = om[1]

\* C6: for every stratified map with at least one group the call completes
\* without a division error, and a signal whose baseline standard deviation
\* is zero or undefined has z-score 0 and an empty flag, each signal
\* independently.
C6_NoDivisionError ==
    (/\ Called("display_errands_stats")
     /\ Len(args.stats) >= 1
     /\ "overall" \notin keys(args.stats)
     /\ Provided(args.overall_series))
    => /\ ret.raised = "none"
       /\ \A i \in 1..Len(args.stats) :
            /\ ZeroOverallStd(args.overall_series[1])
                 => /\ z_score(args.stats[i].value, args.overall_series[1])[1] = 0
                    /\ ret.rows[i].GlobOutlier = ""
            /\ ZeroOtherStd(args.stats, i)
                 => /\ mean_z_score(args.stats, i)[1] = 0
                    /\ ret.rows[i].InGrpOutlier = ""

\* C7: for an empty count mapping neither function raises, and the metrics
\* are unique = 0, gini_coef = 0 and rel_top_cat = 0.
C7_EmptyMapping ==
    (/\ pc = "return"
     /\ fn \in {"calculate_categorical_metrics", "create_categorical_table"}
     /\ args.category_counts = <<>>)
    => /\ ret.raised = "none"
       /\ fn = "calculate_categorical_metrics"
            => /\ ret.value.unique = 0
               /\ ret.value.gini_coef = 0
               /\ ret.value.rel_top_cat = 0

\* C8: create_categorical_table fails with InvalidArgument, returning no
\* table, whenever top_n or bottom_n is negative.
C8_NegativeRejected ==
    (/\ Called("create_categorical_table")
     /\ \/ Provided(args.top_n) /\ args.top_n[1] < 0
        \/ Provided(args.bottom_n) /\ args.bottom_n[1] < 0)
    => ret.raised = "InvalidArgument"

RECURSIVE RatioSum(_)
RatioSum(table) ==
    IF table = <<>> THEN 0 ELSE table[1].Ratio + RatioSum(Tail(table))

\* The call returned the full table: no separator row was inserted.
ReturnedFullTable ==
    /\ Called("create_categorical_table")
    /\ args.category_counts # <<>>
    /\ \A i \in 1..Len(ret.value) : ~IsSeparator(ret.value[i])

\* C9 as stated: the Ratio column of the full table of a non-empty mapping
\* sums to 1.0 within 1e-9 (the ratios are multiples of 1/10000, so the sum
\* must be exactly 10000/10000).
C9_RatiosSumToOne ==
    ReturnedFullTable => RatioSum(ret.value) = 10000

\* C9 (amended): the Ratio column of the full table of a non-empty mapping
\* of R rows sums to 1.0 within R * 0.00005, half a unit of the last
\* rounded decimal per row.
C9_RatiosSumWithinRounding ==
    ReturnedFullTable
    => 2 * Abs(RatioSum(ret.value) - 10000) <= Len(ret.value)

C9_Witness ==
    /\ ReturnedFullTable
    /\ Len(ret.value) = 3
    /\ RatioSum(ret.value) = 9999

\* C10 as stated: with at least two categories 0 <= gini_coef < 1, and for
\* every non-empty mapping gini_coef = 0 iff there is exactly one category.
C10_GiniRangeAndZero ==
    (Called("calculate_categorical_metrics") /\ args.category_counts # <<>>)
    => /\ ret.value.unique >= 2
            => 0 <= ret.value.gini_coef /\ ret.value.gini_coef < 10000
       /\ ret.value.gini_coef = 0 <=> ret.value.unique = 1

\* C10 (amended): for every non-empty mapping 0 <= gini_coef <= 1, with
\* gini_coef < 1 when there are fewer than 20000 categories; exactly one
\* category gives gini_coef = 0; and gini_coef = 0 with two or more
\* categories only when 1 - sum(p^2) is at most 0.00005, which the rounding
\* to 4 decimals reports as 0.
C10_GiniRangeAndZeroRounded ==
    (Called("calculate_categorical_metrics") /\ args.category_counts # <<>>)
    => /\ 0 <= ret.value.gini_coef /\ ret.value.gini_coef <= 10000
       /\ ret.value.unique < 20000 => ret.value.gini_coef < 10000
       /\ ret.value.unique = 1 => ret.value.gini_coef = 0
       /\ (ret.value.gini_coef = 0 /\ ret.value.unique >= 2)
            => LET s == sum_squared_proportions(args.category_counts)
               IN  20000 * (s[2] - s[1]) <= s[2]

C10_Witness ==
    /\ Called("calculate_categorical_metrics")
    /\ ret.value.unique = 2
    /\ ret.value.gini_coef = 0

\* The ranges documented for get_time_slot, on the minute of the day:
\* A 00:00-06:00, B 06:01-12:00, C 12:01-18:00, D 18:01-23:59.
DocumentedSlot(dt) ==
    LET minute_of_day == 60 * dt.hour + dt.minute
    IN  IF minute_of_day <= 6 * 60 THEN "A"
        ELSE IF minute_of_day <= 12 * 60 THEN "B"
        ELSE IF minute_of_day <= 18 * 60 THEN "C"
        ELSE "D"

\* C15: get_time_slot maps every time of day, at minute granularity, to the
\* one slot of the documented ranges (A 00:00-06:00, B 06:01-12:00,
\* C 12:01-18:00, D 18:01-23:59).
C15_DocumentedRanges ==
    Called("get_time_slot") => ret.value = DocumentedSlot(args)

ErrandsOfOrder(errands_df, id) ==
    Cardinality({j \in 1..Len(errands_df) : errands_df[j].order_id = id})

\* C16: after update_orders_with_errand_counts the orders table has as many
\* rows as before, and every row's count_errands is the number of errands
\* rows with that row's order_id (0 when there is none).
C16_ErrandCounts ==
    Called("update_orders_with_errand_counts") =>
        /\ Len(ret.value) = Len(args.orders_df)
        /\ \A i \in 1..Len(ret.value) :
              /\ ret.value[i].order_id = args.orders_df[i].order_id
              /\ ret.value[i].count_errands =
                     ErrandsOfOrder(args.errands_df, ret.value[i].order_id)

\* An order without errands next to an order with several.
C16_Witness ==
    /\ Called("update_orders_with_errand_counts")
    /\ \E i, j \in 1..Len(ret.value) :
          ret.value[i].count_errands = 0 /\ ret.value[j].count_errands > 1

NonTestErrandsOfOrder(errands_df, id) ==
    {e \in {errands_df[i] : i \in 1..Len(errands_df)} :
        e.order_id = id /\ ~e.is_test_errand}

OutputOfOrder(rows, id) == {r \in {rows[p] : p \in 1..Len(rows)} : r.order_id = id}

DiffNotAfter(a, b) ==
    \/ b.order_diff = None
    \/ a.order_diff # None /\ a.order_diff[1] <= b.order_diff[1]

\* C19: in the output of transform_errands no test errand appears, and
\* within each order_id the errand_order values are exactly 1..k, k being
\* the number of non-test errands of that order, assigned in non-decreasing
\* order of order_diff.
C19_ErrandOrder ==
    Called("transform_errands") =>
        /\ \A id \in MlOrderIds :
              LET out == OutputOfOrder(ret.value, id)
                  k == Cardinality(NonTestErrandsOfOrder(args.errands_df, id))
              IN  /\ {r.errand_id : r \in out} =
                        {e.errand_id : e \in NonTestErrandsOfOrder(args.errands_df, id)}
                  /\ Cardinality(out) = k
                  /\ {r.errand_order : r \in out} = 1..k
                  /\ \A a, b \in out :
                        a.errand_order < b.errand_order => DiffNotAfter(a, b)
        /\ \A p \in 1..Len(ret.value) :
              \E i \in 1..Len(args.errands_df) :
                  /\ args.errands_df[i].errand_id = ret.value[p].errand_id
                  /\ ~args.errands_df[i].is_test_errand

\* An order whose later-listed errand was created first, next to a test errand.
C19_Witness ==
    /\ Called("transform_errands")
    /\ \E i \in 1..Len(args.errands_df) : args.errands_df[i].is_test_errand
    /\ \E a, b \in {ret.value[p] : p \in 1..Len(ret.value)} :
          /\ a.order_id = b.order_id
          /\ a.errand_id > b.errand_id
          /\ a.errand_order = 1
          /\ b.errand_order = 2
          /\ a.order_diff # b.order_diff

\* The count_errands values the returned statistics were computed over.
CountsIn(stats) ==
    UNION {{stats[g].value.series[j] : j \in 1..Len(stats[g].value.series)} :
              g \in 1..Len(stats)}

CountsOf(rows) == {rows[i].count_errands : i \in 1..Len(rows)}

\* C11: when filter_column and filter_values (a set, possibly empty) are both
\* given, compute_contacts_stats computes over exactly the rows whose
\* filter_column value is in filter_values; when either is omitted, over all
\* the rows.
C11_FilterMembership ==
    Called("compute_contacts_stats") =>
        CountsIn(ret.value) =
            IF args.filter_column # None /\ args.filter_values # None
            THEN CountsOf(SelectSeq(args.df,
                     LAMBDA row : row[args.filter_column[1]] \in args.filter_values[1]))
            ELSE CountsOf(args.df)

\* The rows compute_contacts_stats keeps after its optional filter.
FilteredRows == filter_rows(args.df, args.filter_column, args.filter_values)

GroupsHolding(stats, v) == {g \in 1..Len(stats) : stats[g].key = v}

KeysOf(stats) == [g \in 1..Len(stats) |-> stats[g].key]

RenderedGroups == [i \in 1..Len(ret.rows) |-> ret.rows[i].Group]

\* A display_errands_stats call on the output of compute_contacts_stats.
DisplayedComputed(stratified) ==
    /\ Called("display_errands_stats")
    /\ "df" \in DOMAIN args
    /\ (args.stratify_by # None) = stratified
    /\ ret.raised = "none"

\* C14: the stratified map returned by compute_contacts_stats, and hence the
\* rows rendered by display_errands_stats, lists the groups in
\* first-encountered order.
C14_FirstEncounteredOrder ==
    /\ (Called("compute_contacts_stats") /\ args.stratify_by # None) =>
           KeysOf(ret.value) = unique(column(FilteredRows, args.stratify_by[1]))
    /\ (DisplayedComputed(TRUE) /\ ret.table = "stratified") =>
           RenderedGroups = unique(column(args.df, args.stratify_by[1]))

Ascending(ks) ==
    \A i, j \in 1..Len(ks) :
        i < j => \E a, b \in 1..Len(ColumnValues) :
                    a < b /\ ColumnValues[a] = ks[i] /\ ColumnValues[b] = ks[j]

\* C14 (as the code has it): the stratified map returned by
\* compute_contacts_stats, and hence the rows rendered by
\* display_errands_stats, lists the groups in ascending order of their
\* stratification value.
C14_AscendingKeyOrder ==
    /\ (Called("compute_contacts_stats") /\ args.stratify_by # None) =>
           Ascending(KeysOf(ret.value))
    /\ (DisplayedComputed(TRUE) /\ ret.table = "stratified") =>
           /\ Ascending(RenderedGroups)
           /\ RenderedGroups = KeysOf(args.stats)

\* Rendered groups whose ascending order is not the order of first appearance.
C14_Witness ==
    /\ DisplayedComputed(TRUE)
    /\ ret.table = "stratified"
    /\ Len(ret.rows) = 2
    /\ RenderedGroups # unique(column(args.df, args.stratify_by[1]))

\* C20: display_errands_stats renders the result of a stratified
\* compute_contacts_stats call as the stratified table, one row per group,
\* whatever the stratification values are (a group keyed "overall"
\* included); only an unstratified result is rendered as the overall table.
C20_StratifiedRenderedStratified ==
    /\ DisplayedComputed(TRUE) =>
           /\ ret.table = "stratified"
           /\ Len(ret.rows) = Len(args.stats)
    /\ DisplayedComputed(FALSE) => ret.table = "overall"

\* 4 times the 25th percentile of the counts cs, by linear interpolation
\* between the two order statistics around position (n - 1) / 4.
LinearPercentile25x4(cs) ==
    LET sorted == SortAscending(cs)
        lower == ((Len(cs) - 1) \div 4) + 1
        part == (Len(cs) - 1) % 4
    IN  IF part = 0 THEN 4 * sorted[lower]
        ELSE 4 * sorted[lower] + part * (sorted[lower + 1] - sorted[lower])

AboveSmallThreshold(i) ==
    4 * args.stats[i].value.count > LinearPercentile25x4(all_counts(args.stats))

\* |z| > 2 for a z-score held as the fraction of its square.
AbsAbove2(zsq) == zsq[1] > 4 * zsq[2]

RenderedStratified ==
    /\ Called("display_errands_stats")
    /\ ret.raised = "none"
    /\ ret.table = "stratified"

\* C18: in the stratified table each of the two outlier flags is set exactly
\* when its own signal's z-score exceeds 2 in absolute value and the group's
\* count is strictly above the 25th percentile (linear interpolation) of all
\* group counts; the flags are decided independently, and a group whose
\* count is at or below that percentile gets neither flag.
C18_OutlierFlags ==
    RenderedStratified =>
        \A i \in 1..Len(ret.rows) :
            /\ (ret.rows[i].GlobOutlier = "*") <=>
                   (AbsAbove2(z_score(args.stats[i].value, args.overall_series[1]))
                       /\ AboveSmallThreshold(i))
            /\ (ret.rows[i].InGrpOutlier = "*") <=>
                   (AbsAbove2(mean_z_score(args.stats, i)) /\ AboveSmallThreshold(i))
            /\ ret.rows[i].GlobOutlier \in {"*", ""}
            /\ ret.rows[i].InGrpOutlier \in {"*", ""}
            /\ ~AboveSmallThreshold(i) =>
                   ret.rows[i].GlobOutlier = "" /\ ret.rows[i].InGrpOutlier = ""

\* A group flagged by the global signal and not by the inter-group signal.
C18_Witness ==
    /\ RenderedStratified
    /\ \E i \in 1..Len(ret.rows) :
          /\ ret.rows[i].GlobOutlier = "*"
          /\ ret.rows[i].InGrpOutlier = ""
          /\ AboveSmallThreshold(i)

\* Both columns of the pair at position p are columns of the table.
BothPresent(p) ==
    /\ args.column_dependencies[p][1] \in args.df.columns
    /\ args.column_dependencies[p][2] \in args.df.columns

\* The items emitted for the pair at position p, in order of emission.
EmittedFor(p) == SelectSeq(ret.emitted, LAMBDA item : item.dependency = p)

\* C13: analyze_column_dependencies emits nothing and raises no error for a
\* pair whose main or dependent column is absent from the table, and still
\* processes every other pair whose two columns are present.
C13_AbsentPairSkipped ==
    Called("analyze_column_dependencies") =>
        /\ ret.raised = "none"
        /\ \A p \in 1..Len(args.column_dependencies) :
              IF BothPresent(p)
              THEN /\ EmittedFor(p) # <<>>
                   /\ EmittedFor(p)[1].kind = "table"
                   /\ EmittedFor(p)[1].title =
                          <<"Combined Analysis", args.column_dependencies[p][1],
                            args.column_dependencies[p][2]>>
              ELSE EmittedFor(p) = <<>>

\* A pair with an absent column listed before a pair that is processed.
C13_Witness ==
    /\ Called("analyze_column_dependencies")
    /\ Len(args.column_dependencies) = 2
    /\ ~BothPresent(1)
    /\ BothPresent(2)
    /\ ret.raised = "none"
    /\ ret.emitted # <<>>

\* The values of a column in order of first occurrence.
RECURSIVE FirstOccurrences(_, _)
FirstOccurrences(rows, col) ==
    IF rows = <<>> THEN <<>>
    ELSE <<rows[1][col]>>
         \o FirstOccurrences(SelectSeq(Tail(rows),
                                 LAMBDA row : row[col] # rows[1][col]), col)

\* What an emitted item is and what it is about.
Shape(item) == <<item.kind, item.title>>

\* The emission documented for one processed pair.
ExpectedShapes(main_col, dep_col) ==
    LET mains == FirstOccurrences(args.df.rows, main_col)
    IN  <<<<"table", <<"Combined Analysis", main_col, dep_col>>>>,
          <<"plot", <<main_col, dep_col, "Distribution">>>>,
          <<"markdown", <<"Stratified Analysis", dep_col, "by", main_col>>>>>>
        \o Concat([k \in 1..Len(mains) |->
              <<<<"table", <<main_col, "=", mains[k]>>>>,
                <<"plot", <<dep_col, "Distribution for", main_col, "=", mains[k]>>>>>>])

\* The dependent values of the rows whose main value is v.
DependentValuesWhere(main_col, v, dep_col) ==
    {args.df.rows[i][dep_col] :
        i \in {j \in 1..Len(args.df.rows) : args.df.rows[j][main_col] = v}}

\* C17: for each pair with both columns present analyze_column_dependencies
\* emits, in this order, the combined table, the combined plot, the
\* stratified header and then, for each distinct main value in order of
\* first occurrence, a table followed by a plot of the dependent column
\* restricted to the rows with that main value; all the output of one pair
\* precedes the output of the next.
C17_EmissionOrder ==
    (Called("analyze_column_dependencies") /\ ret.raised = "none") =>
        /\ \A i, j \in 1..Len(ret.emitted) :
              i < j => ret.emitted[i].dependency <= ret.emitted[j].dependency
        /\ \A p \in 1..Len(args.column_dependencies) :
              BothPresent(p) =>
                  LET main_col == args.column_dependencies[p][1]
                      dep_col == args.column_dependencies[p][2]
                      out == EmittedFor(p)
                  IN  /\ [i \in 1..Len(out) |-> Shape(out[i])] =
                             ExpectedShapes(main_col, dep_col)
                      /\ \A i \in 4..Len(out) :
                             LET v == out[i].title[Len(out[i].title)]
                                 counted == IF out[i].kind = "plot"
                                            THEN out[i].data
                                            ELSE out[i].table
                             IN  {IF out[i].kind = "plot"
                                  THEN counted[k].category
                                  ELSE counted[k].Category : k \in 1..Len(counted)}
                                     = DependentValuesWhere(main_col, v, dep_col)

\* Two processed pairs, the first with main values whose first occurrences
\* are not in ascending order.
C17_Witness ==
    /\ Called("analyze_column_dependencies")
    /\ ret.raised = "none"
    /\ Len(args.column_dependencies) = 2
    /\ BothPresent(1)
    /\ BothPresent(2)
    /\ args.column_dependencies[1] = <<"brand", "device">>
    /\ FirstOccurrences(args.df.rows, "brand") = <<"b", "a">>

\* The columns of the table that exclude_columns does not name.
NotExcluded ==
    args.df.columns \ {or_empty_list(args.exclude_columns)[i] :
                          i \in 1..Len(or_empty_list(args.exclude_columns))}

\* A table and a plot of the column on its own were emitted.
AnalyzedIndividually(col) ==
    \E i \in 1..Len(ret.emitted) :
        ret.emitted[i].kind = "table" /\ ret.emitted[i].title = <<"Column", col>>

\* A dependency pair with the column as its dependent column emitted output.
AnalyzedAsDependent(col) ==
    \E p \in 1..Len(or_empty_list(args.dependencies)) :
        /\ or_empty_list(args.dependencies)[p][2] = col
        /\ \E i \in 1..Len(ret.emitted) : ret.emitted[i].dependency = p

\* C21: in generate_df_analysis every categorical column that is not
\* excluded is analysed at least once, on its own by
\* analyze_categorical_column or as the dependent column of a pair that
\* analyze_column_dependencies processes.
C21_EveryColumnAnalyzed ==
    Called("generate_df_analysis") =>
        /\ ret.raised = "none"
        /\ \A col \in NotExcluded :
              AnalyzedIndividually(col) \/ AnalyzedAsDependent(col)

====
